---- MODULE Spec2Model ----
(***************************************************************************)
(* whkd: the mode-based hotkey state machine (ModeManager) and the event   *)
(* dispatch closure of main, src/src/main.rs.                              *)
(*                                                                         *)
(* The main thread builds the ModeManager from the parsed bindings,        *)
(* activates the default mode and then runs the event loop.  The OS (the   *)
(* global-hotkey window procedure) is the only other actor: it appends the *)
(* id of a fired hotkey to the event channel.                              *)
(***************************************************************************)
EXTENDS Integers, Sequences, FiniteSets, TLC

\* ------------------------------------------------------------------ bounds
\* longest list of direct bindings in a document
MaxBindings == 3
\* number of events the OS delivers in one run
MaxEvents == 3
MaxLines == 2

\* --------------------------------------------------------- option encoding
\* Option<String>::None
NONE == "None"
\* Option<Option<String>>::None: the binding has no `;` clause
ABSENT == "Absent"
\* no event / no descriptor held by the dispatcher
NoEvent == <<>>
NoCode == "NoCode"

\* ------------------------------------------------- Binding Normalizer
\* str::to_lowercase over the key tokens of the model
to_lowercase(key) ==
    CASE key = "H" -> "h"
      [] key = "J" -> "j"
      [] key = "KeyH" -> "keyh"
      [] key = "Escape" -> "escape"
      [] OTHER -> key

\* keyboard_types Code::from_str: the W3C code names, case-sensitive
Code_from_str(key) ==
    IF key \in {"KeyH", "KeyJ", "KeyN", "Escape"} THEN key ELSE NoCode

key_code_from_string(key) ==
    LET k == to_lowercase(key) IN
    CASE k = "h" -> "KeyH"
      [] k = "j" -> "KeyJ"
      [] k = "n" -> "KeyN"
      [] k = "escape" -> "Escape"
      [] OTHER -> Code_from_str(key)

\* Modifiers is a bit set; the empty set is Modifiers::empty()
modifier_from_string(modifier) ==
    CASE modifier = "ctrl" -> {"CONTROL"}
      [] modifier = "alt" -> {"ALT"}
      [] modifier = "shift" -> {"SHIFT"}
      [] modifier = "super" -> {"SUPER"}
      [] OTHER -> {}

\* keys.split_last()
split_trigger(keys) == keys[Len(keys)]
split_mods(keys) == SubSeq(keys, 1, Len(keys) - 1)

\* variant: a binding that cannot be normalized is passed on as it is
try_from_lenient(value) == FALSE

\* the two unwrap() calls of try_from: no key at all, or an unknown trigger
try_from_panics(value) ==
    \/ Len(value.keys) = 0
    \/ key_code_from_string(split_trigger(value.keys)) = NoCode

\* mod_keys: Option<Modifiers>; the code stores None for the empty set, so
\* the empty set stands for None and Some(empty) never occurs
try_from(value) ==
    LET mods == split_mods(value.keys)
        mod_keys == UNION {modifier_from_string(mods[i]) : i \in 1..Len(mods)}
    IN [mode |-> value.mode,
        mod_keys |-> mod_keys,
        vkey |-> key_code_from_string(split_trigger(value.keys)),
        command |-> value.command,
        internal_action |-> value.internal_action,
        process_name |-> value.process_name]

\* HotKey::new(mods, key): the handle; its id is computed from the modifiers
\* and the key code alone
HotKey_new(mod_keys, vkey) == [mods |-> mod_keys, key |-> vkey]
id(hotkey) == <<hotkey.mods, hotkey.key>>

\* ------------------------------------------------------ documents
Binding(mode, keys, command, internal_action) ==
    [mode |-> mode, keys |-> keys, command |-> command,
     internal_action |-> internal_action, process_name |-> NONE]

\* direct bindings a document is made of
BindingPool ==
    { Binding(NONE, <<"alt", "h">>, NONE, "window"),
      Binding("window", <<"alt", "H">>, "a", NONE),
      Binding(NONE, <<"alt", "h">>, "b", ABSENT),
      Binding(NONE, <<"j">>, "a", "ghost"),
      Binding(NONE, <<"hyper", "j">>, NONE, NONE),
      Binding(NONE, <<"bogus">>, "a", ABSENT) }

Documents == UNION { [1..n -> BindingPool] : n \in 1..MaxBindings }

\* whkdrc.app_bindings: per process-scoped block, its keys and the bindings
\* collected from its `process : command` pairs
AppDocuments ==
    { << << <<"alt", "n">>,
            << [mode |-> NONE, keys |-> <<"alt", "n">>, command |-> "c",
                internal_action |-> ABSENT, process_name |-> "Firefox"] >> >> >> }

\* an id no descriptor of any document has
ForeignId == <<{}, "Escape">>

\* combos another application may own
OwnablePool == { <<{}, "KeyJ">> }


\* ------------------------------------------------------------ the source text
\* A source text is a sequence of tokens: words (identifiers, integers, other
\* text), the punctuation of the grammar, NL for a line break and "#" for a
\* comment up to and including its line break.  Blanks between tokens are not
\* kept; NL is the whitespace that `padded()` skips.
NL == "<nl>"
Punctuation == {NL, "#", ">", "+", ":", ";", "[", "]", ".shell"}
Integers10 == {"1", "2"}
OtherText == {"-x", "--flag"}

\* text::ident() and text::int(10) on one token
is_ident(t) == t \notin Punctuation \cup Integers10 \cup OtherText
is_int(t) == t \in Integers10

Fail == [ok |-> FALSE]
Got(v, rest) == [ok |-> TRUE, val |-> v, rest |-> rest]

\* one parser followed by what is made of its result
and_then(r, F(_)) == CHOOSE y \in {F(x) : x \in {r}} : TRUE

\* the whitespace skipped by padded()
RECURSIVE skip_ws(_)
skip_ws(ts) == IF ts # <<>> /\ Head(ts) = NL THEN skip_ws(Tail(ts)) ELSE ts

\* a.join(" ")
RECURSIVE join(_)
join(ws) ==
    IF ws = <<>> THEN ""
    ELSE IF Len(ws) = 1 THEN ws[1]
    ELSE ws[1] \o " " \o join(Tail(ws))

\* comment: just("#").then(take_until(text::newline())).padded()
comment(ts) ==
    and_then(skip_ws(ts), LAMBDA t :
        IF t # <<>> /\ Head(t) = "#" THEN Got("#", skip_ws(Tail(t))) ELSE Fail)

\* comment.repeated()
RECURSIVE comments(_)
comments(ts) ==
    and_then(comment(ts), LAMBDA r : IF r.ok THEN comments(r.rest) ELSE ts)

\* the shell directive: exactly one `.shell <name>`
shell(ts) ==
    and_then(skip_ws(ts), LAMBDA t :
        IF /\ Len(t) >= 2
           /\ t[1] = ".shell"
           /\ t[2] \in {"pwsh", "powershell", "cmd"}
        THEN Got(t[2], SubSeq(t, 3, Len(t)))
        ELSE Fail)

\* text::ident().padded()
ident_padded(ts) ==
    and_then(skip_ws(ts), LAMBDA t :
        IF t # <<>> /\ is_ident(Head(t)) THEN Got(Head(t), skip_ws(Tail(t))) ELSE Fail)

\* just(c).padded()
just_padded(c, ts) ==
    and_then(skip_ws(ts), LAMBDA t :
        IF t # <<>> /\ Head(t) = c THEN Got(c, skip_ws(Tail(t))) ELSE Fail)

\* variant: the literal `default` is kept as a mode name
mode_selector_literal(ts) ==
    and_then(ident_padded(ts), LAMBDA r :
        IF ~r.ok THEN Got(NONE, ts)
        ELSE and_then(just_padded(">", r.rest), LAMBDA g :
                IF g.ok THEN Got(r.val, g.rest) ELSE Got(NONE, ts)))

\* mode_selector: (ident `>`).or_not(), `default` mapped to None
mode_selector(ts) ==
    and_then(ident_padded(ts), LAMBDA r :
        IF ~r.ok THEN Got(NONE, ts)
        ELSE and_then(just_padded(">", r.rest), LAMBDA g :
                IF g.ok THEN Got(IF r.val = "default" THEN NONE ELSE r.val, g.rest)
                ELSE Got(NONE, ts)))

\* change_mode: ident, `default` mapped to None
change_mode(ts) ==
    and_then(ident_padded(ts), LAMBDA r :
        IF r.ok THEN Got(IF r.val = "default" THEN NONE ELSE r.val, r.rest) ELSE Fail)

\* choice((text::ident(), text::int(10))).padded()
key_padded(ts) ==
    and_then(skip_ws(ts), LAMBDA t :
        IF t # <<>> /\ (is_ident(Head(t)) \/ is_int(Head(t)))
        THEN Got(Head(t), skip_ws(Tail(t))) ELSE Fail)

\* the keys after the first: a `+` counts only with a key after it
RECURSIVE hotkeys_more(_, _)
hotkeys_more(acc, ts) ==
    IF ts # <<>> /\ Head(ts) = "+"
    THEN and_then(key_padded(Tail(ts)), LAMBDA k :
            IF k.ok THEN hotkeys_more(Append(acc, k.val), k.rest) ELSE Got(acc, ts))
    ELSE Got(acc, ts)

\* hotkeys: keys separated_by(just("+")), zero keys allowed
parse_hotkeys(ts) ==
    and_then(key_padded(ts), LAMBDA k :
        IF k.ok THEN hotkeys_more(<<k.val>>, k.rest) ELSE Got(<<>>, ts))

\* choice((comment, newline, change_mode_delimiter, end())): where a command stops
command_stops(ts) ==
    \/ ts = <<>>
    \/ Head(ts) \in {NL, "#", ";"}

RECURSIVE command_words(_, _)
command_words(acc, ts) ==
    IF command_stops(ts) THEN Got(acc, ts)
    ELSE command_words(Append(acc, Head(ts)), Tail(ts))

\* command: the text up to where it stops, padded
command(ts) ==
    and_then(command_words(<<>>, skip_ws(ts)), LAMBDA r :
        Got(join(r.val), skip_ws(r.rest)))

\* change_mode_delimiter.ignore_then(change_mode)
mode_clause(ts) ==
    and_then(just_padded(";", ts), LAMBDA d :
        IF d.ok THEN change_mode(d.rest) ELSE Fail)

\* action: `: command [; mode]` or `; mode`
action(ts) ==
    and_then(just_padded(":", ts), LAMBDA d :
        IF d.ok
        THEN and_then(command(d.rest), LAMBDA c :
                and_then(mode_clause(c.rest), LAMBDA m :
                    IF m.ok THEN Got(<<c.val, m.val>>, m.rest)
                    ELSE Got(<<c.val, ABSENT>>, c.rest)))
        ELSE and_then(mode_clause(ts), LAMBDA m :
                IF m.ok THEN Got(<<NONE, m.val>>, m.rest) ELSE Fail))

\* binding: mode_selector.then(hotkeys).then(action), mapped to a HotkeyBinding
binding(ts) ==
    and_then(mode_selector(ts), LAMBDA m :
        and_then(parse_hotkeys(m.rest), LAMBDA k :
            and_then(action(k.rest), LAMBDA a :
                IF a.ok
                THEN Got([mode |-> m.val, keys |-> k.val, command |-> a.val[1],
                          internal_action |-> a.val[2], process_name |-> NONE], a.rest)
                ELSE Fail)))

\* binding.map(..).padded().padded_by(comment.repeated())
binding_item(ts) ==
    and_then(binding(skip_ws(comments(ts))), LAMBDA r :
        IF r.ok THEN Got(r.val, comments(skip_ws(r.rest))) ELSE Fail)

\* binding ... .repeated()
RECURSIVE bindings_repeated(_, _)
bindings_repeated(acc, ts) ==
    and_then(binding_item(ts), LAMBDA r :
        IF r.ok THEN bindings_repeated(Append(acc, r.val), r.rest) ELSE Got(acc, ts))

\* text::ident().padded().repeated(): the words of a process name
RECURSIVE idents_repeated(_, _)
idents_repeated(acc, ts) ==
    and_then(ident_padded(ts), LAMBDA r :
        IF r.ok THEN idents_repeated(Append(acc, r.val), r.rest) ELSE Got(acc, ts))

\* process_name: at least one word, joined by single blanks
process_name(ts) ==
    and_then(idents_repeated(<<>>, ts), LAMBDA r :
        IF r.val # <<>> THEN Got(join(r.val), r.rest) ELSE Fail)

\* process_name `:` command, padded and padded by comments
process_mapping_item(ts) ==
    and_then(process_name(skip_ws(comments(ts))), LAMBDA n :
        IF ~n.ok THEN Fail
        ELSE and_then(just_padded(":", n.rest), LAMBDA d :
                IF ~d.ok THEN Fail
                ELSE and_then(command(d.rest), LAMBDA c :
                        Got(<<n.val, c.val>>, comments(skip_ws(c.rest))))))

RECURSIVE process_mapping(_, _)
process_mapping(acc, ts) ==
    and_then(process_mapping_item(ts), LAMBDA r :
        IF r.ok THEN process_mapping(Append(acc, r.val), r.rest) ELSE Got(acc, ts))

\* process_command_map: `[` at least one mapping `]`
process_command_map(ts) ==
    and_then(skip_ws(comments(ts)), LAMBDA t :
        IF t # <<>> /\ Head(t) = "["
        THEN and_then(process_mapping(<<>>, Tail(t)), LAMBDA r :
                and_then(comments(skip_ws(r.rest)), LAMBDA e :
                    IF r.val # <<>> /\ e # <<>> /\ Head(e) = "]"
                    THEN Got(r.val, Tail(e))
                    ELSE Fail))
        ELSE Fail)

\* variant: every pair of a block gets the process name of its first pair
collected_first_name(keys, pairs) ==
    [i \in 1..Len(pairs) |->
        [mode |-> NONE, keys |-> keys, command |-> pairs[i][2],
         internal_action |-> ABSENT, process_name |-> pairs[1][1]]]

\* one HotkeyBinding per (app, command) pair, in order
collected(keys, pairs) ==
    [i \in 1..Len(pairs) |->
        [mode |-> NONE, keys |-> keys, command |-> pairs[i][2],
         internal_action |-> ABSENT, process_name |-> pairs[i][1]]]

\* process_bindings: hotkeys.then(process_command_map), mapped to (keys, collected)
process_bindings_item(ts) ==
    and_then(parse_hotkeys(skip_ws(comments(ts))), LAMBDA k :
        and_then(process_command_map(k.rest), LAMBDA m :
            IF m.ok
            THEN Got(<<k.val, collected(k.val, m.val)>>, comments(skip_ws(m.rest)))
            ELSE Fail))

RECURSIVE process_bindings_repeated(_, _)
process_bindings_repeated(acc, ts) ==
    and_then(process_bindings_item(ts), LAMBDA r :
        IF r.ok THEN process_bindings_repeated(Append(acc, r.val), r.rest)
        ELSE Got(acc, ts))

\* parser(): shell, then the process-scoped blocks, then at least one binding
parser(ts) ==
    and_then(shell(ts), LAMBDA sh :
        IF ~sh.ok THEN Fail
        ELSE and_then(process_bindings_repeated(<<>>, sh.rest), LAMBDA ab :
                and_then(bindings_repeated(<<>>, ab.rest), LAMBDA bs :
                    IF bs.val = <<>> THEN Fail
                    ELSE [ok |-> TRUE, shell |-> sh.val, app_bindings |-> ab.val,
                          bindings |-> bs.val])))

\* ------------------------------------------------------ the source documents
\* A document is written down by its parts and rendered to the token text the
\* parser reads: an optional shell directive, process-scoped blocks, and
\* direct binding lines `[name >] key + key [: command] [; mode]`.
tokens_of(text) ==
    IF text = "echo hi" THEN <<"echo", "hi">>
    ELSE IF text = "Google Chrome" THEN <<"Google", "Chrome">>
    ELSE <<text>>

RECURSIVE render_keys(_)
render_keys(keys) ==
    IF keys = <<>> THEN <<>>
    ELSE IF Len(keys) = 1 THEN keys
    ELSE <<Head(keys), "+">> \o render_keys(Tail(keys))

render_line(l) ==
    (IF l.prefix = ABSENT THEN <<>> ELSE <<l.prefix, ">">>)
    \o render_keys(l.keys)
    \o (IF l.command = ABSENT THEN <<>> ELSE <<":">> \o tokens_of(l.command))
    \o (IF l.clause = ABSENT THEN <<>> ELSE <<";", l.clause>>)
    \o <<l.tail>>

RECURSIVE render_pairs(_)
render_pairs(pairs) ==
    IF pairs = <<>> THEN <<>>
    ELSE tokens_of(Head(pairs).name) \o <<":">> \o tokens_of(Head(pairs).command)
         \o <<NL>> \o render_pairs(Tail(pairs))

render_block(b) ==
    render_keys(b.keys) \o <<"[", NL>>
    \o (IF b.commented THEN <<"#">> ELSE <<>>)
    \o render_pairs(b.pairs) \o <<"]", NL>>

RECURSIVE render_all(_, _)
render_all(items, kind) ==
    IF items = <<>> THEN <<>>
    ELSE (IF kind = "block" THEN render_block(Head(items)) ELSE render_line(Head(items)))
         \o render_all(Tail(items), kind)

render(d) ==
    (IF d.shell = ABSENT THEN <<>> ELSE <<".shell", d.shell, NL>>)
    \o render_all(d.blocks, "block")
    \o render_all(d.lines, "line")

ShellPool == {ABSENT, "pwsh", "cmd"}

LinePool ==
    { l \in [prefix : {ABSENT, "default", "window"}, keys : {<<"alt", "h">>},
             command : {ABSENT, "echo hi"}, clause : {ABSENT, "default", "ghost"},
             tail : {NL}] :
        l.command # ABSENT \/ l.clause # ABSENT }
    \cup { [prefix |-> "window", keys |-> <<"escape">>, command |-> ABSENT,
            clause |-> "default", tail |-> "#"],
           [prefix |-> ABSENT, keys |-> <<"ctrl", "alt", "1">>, command |-> "a",
            clause |-> ABSENT, tail |-> "#"],
           [prefix |-> ABSENT, keys |-> <<>>, command |-> "echo hi",
            clause |-> ABSENT, tail |-> NL] }

Block1 ==
    [keys |-> <<"alt", "n">>, commented |-> FALSE,
     pairs |-> << [name |-> "Firefox", command |-> "echo hi"] >>]

Block2 ==
    [keys |-> <<"ctrl", "j">>, commented |-> TRUE,
     pairs |-> << [name |-> "Google Chrome", command |-> "echo hi"],
                  [name |-> "Firefox", command |-> "a"] >>]

Block3 ==
    [keys |-> <<>>, commented |-> FALSE,
     pairs |-> << [name |-> "Firefox", command |-> "a"] >>]

BlockDocuments == { <<>>, <<Block1>>, <<Block2>>, <<Block1, Block2>>, <<Block3>> }

SourceDocuments ==
    [shell : ShellPool, blocks : BlockDocuments,
     lines : UNION { [1..n -> LinePool] : n \in 1..MaxLines }]

\* the source text is not tracked
NoDoc == [shell |-> ABSENT, blocks |-> <<>>, lines |-> <<>>]

\* nothing has been loaded
NotLoaded == [ok |-> FALSE]

\* ------------------------------------------------------------------ state
VARIABLES
    doc,           \* the configuration document the source text is rendered from
    whkdrc,        \* the outcome of Whkdrc::load on that text
    bindings,      \* whkdrc.bindings: the parsed direct bindings
    app_bindings,  \* whkdrc.app_bindings: the parsed process-scoped blocks
    owned,         \* ids of the combos another application owns
    pc,            \* position of the main thread
    mode,          \* ModeManager.mode
    binding_map,   \* ModeManager.binding_map: mode -> Vec<HkmData>
    hotkeys,       \* ModeManager.hotkeys: HkmData -> HotKey
    registered,    \* ids this process has registered with the OS
    channel,       \* GlobalHotKeyEvent::receiver(): fired ids, oldest first
    delivered,     \* number of events the OS has sent so far
    sent,          \* the ids the OS has sent, in the order it sent them
    event,         \* the event the closure is handling
    hotkey,        \* the descriptor the closure resolved it to
    target,        \* activate_mode's argument
    caller,        \* who called activate_mode: "startup" or "dispatch"
    locks,         \* mutexes held by the main thread
    result,        \* what the last activate_mode call returned
    session_stdin, \* lines written to the shell: command, mode at the write, event number
    seen,          \* [n, mode]: number of the event being handled, mode when it was read
    act            \* the running (or last) activate_mode call: what it saw and did

vars == <<doc, whkdrc, bindings, app_bindings, owned, pc, mode, binding_map, hotkeys, registered, channel,
          delivered, sent, event, hotkey, target, caller, locks, result,
          session_stdin, seen, act>>

NoHotkey == [mode |-> NONE, mod_keys |-> {}, vkey |-> NoCode, command |-> NONE,
             internal_action |-> ABSENT, process_name |-> NONE]

NoAct == [entry_mode |-> NONE, entry_registered |-> {}, calls |-> <<>>]

EmptyMap == [m \in {} |-> <<>>]

\* ------------------------------------------------------- ModeManager::new
\* binding_map.entry(data.mode).or_insert_with(Vec::new).push(data)
entry_push(map, data) ==
    [m \in DOMAIN map \cup {data.mode} |->
        IF m = data.mode
        THEN Append(IF m \in DOMAIN map THEN map[m] ELSE <<>>, data)
        ELSE map[m]]

\* hotkeys.insert(data, hotkey): an equal key is replaced
insert(map, data, hk) ==
    [d \in DOMAIN map \cup {data} |-> IF d = data THEN hk ELSE map[d]]

RECURSIVE new_binding_map(_, _)
new_binding_map(bs, map) ==
    IF bs = <<>> THEN map
    ELSE new_binding_map(Tail(bs), entry_push(map, try_from(Head(bs))))

RECURSIVE new_hotkeys(_, _)
new_hotkeys(bs, map) ==
    IF bs = <<>> THEN map
    ELSE LET data == try_from(Head(bs)) IN
         new_hotkeys(Tail(bs), insert(map, data, HotKey_new(data.mod_keys, data.vkey)))

\* variant: an unknown mode falls back to the default mode's descriptors
handles_fallback(m) ==
    LET k == IF m \in DOMAIN binding_map THEN m ELSE NONE IN
    IF k \in DOMAIN binding_map
    THEN [i \in 1..Len(binding_map[k]) |-> hotkeys[binding_map[k][i]]]
    ELSE <<>>

\* self.binding_map.get(m).map_or(Vec::new(), |v| v.iter().map(|h| lock.get(h).unwrap()))
handles(m) ==
    IF m \in DOMAIN binding_map
    THEN [i \in 1..Len(binding_map[m]) |-> hotkeys[binding_map[m][i]]]
    ELSE <<>>

\* ------------------------------------------- GlobalHotKeyManager (the OS)
\* variant: ids held when activate_mode was entered still count as registered
RECURSIVE register_all_stale(_, _, _)
register_all_stale(reg, taken, hks) ==
    IF hks = <<>> THEN reg
    ELSE IF id(Head(hks)) \in reg \cup taken \cup act.entry_registered THEN reg
    ELSE register_all_stale(reg \cup {id(Head(hks))}, taken, Tail(hks))

\* register fails for an id this process already holds or another owns;
\* register_all stops at the first failure
RECURSIVE register_all(_, _, _)
register_all(reg, taken, hks) ==
    IF hks = <<>> THEN reg
    ELSE IF id(Head(hks)) \in reg \cup taken THEN reg
    ELSE register_all(reg \cup {id(Head(hks))}, taken, Tail(hks))

\* unregister fails for an id this process does not hold;
\* unregister_all stops at the first failure
RECURSIVE unregister_all(_, _)
unregister_all(reg, hks) ==
    IF hks = <<>> THEN reg
    ELSE IF id(Head(hks)) \notin reg THEN reg
    ELSE unregister_all(reg \ {id(Head(hks))}, Tail(hks))

\* ------------------------------------------------------------------- Init
Init ==
    /\ doc = NoDoc
    /\ bindings \in Documents
    /\ app_bindings \in AppDocuments
    /\ whkdrc = [ok |-> TRUE, shell |-> "pwsh", app_bindings |-> app_bindings,
                 bindings |-> bindings]
    /\ owned \in SUBSET OwnablePool
    /\ pc = "new"
    /\ mode = NONE
    /\ binding_map = EmptyMap
    /\ hotkeys = EmptyMap
    /\ registered = {}
    /\ channel = <<>>
    /\ delivered = 0
    /\ sent = <<>>
    /\ event = NoEvent
    /\ hotkey = NoHotkey
    /\ target = NONE
    /\ caller = "startup"
    /\ locks = {}
    /\ result = "none"
    /\ session_stdin = <<>>
    /\ seen = [n |-> 0, mode |-> NONE]
    /\ act = NoAct

\* the state before the configuration is loaded
LoadInit ==
    /\ doc \in SourceDocuments
    /\ whkdrc = NotLoaded
    /\ bindings = <<>>
    /\ app_bindings = <<>>
    /\ owned = {}
    /\ pc = "load"
    /\ mode = NONE
    /\ binding_map = EmptyMap
    /\ hotkeys = EmptyMap
    /\ registered = {}
    /\ channel = <<>>
    /\ delivered = 0
    /\ sent = <<>>
    /\ event = NoEvent
    /\ hotkey = NoHotkey
    /\ target = NONE
    /\ caller = "startup"
    /\ locks = {}
    /\ result = "none"
    /\ session_stdin = <<>>
    /\ seen = [n |-> 0, mode |-> NONE]
    /\ act = NoAct

\* main: Whkdrc::load(&config).unwrap_or_else(|_| panic!(..)); the text is
\* parsed by parser()
Load ==
    /\ pc = "load"
    /\ whkdrc' = parser(render(doc))
    /\ IF whkdrc'.ok
       THEN /\ bindings' = whkdrc'.bindings
            /\ app_bindings' = whkdrc'.app_bindings
            /\ pc' = "new"
       ELSE /\ pc' = "panicked"
            /\ UNCHANGED <<bindings, app_bindings>>
    /\ UNCHANGED <<doc, owned, mode, binding_map, hotkeys, registered, channel,
                   delivered, sent, event, hotkey, target, caller, locks, result,
                   session_stdin, seen, act>>

\* main: ModeManager::new(&whkdrc.bindings)?, then activate_mode(&None)
New ==
    /\ pc = "new"
    /\ IF \E i \in 1..Len(bindings) : try_from_panics(bindings[i])
       THEN /\ pc' = "panicked"
            /\ UNCHANGED <<binding_map, hotkeys>>
       ELSE /\ binding_map' = new_binding_map(bindings, EmptyMap)
            /\ hotkeys' = new_hotkeys(bindings, EmptyMap)
            /\ pc' = "act_lock"
    /\ mode' = NONE
    /\ target' = NONE
    /\ caller' = "startup"
    /\ UNCHANGED <<doc, whkdrc, bindings, app_bindings, owned, registered, channel, delivered, sent, event, hotkey,
                   locks, result, session_stdin, seen, act>>

\* ------------------------------------------------ ModeManager::activate_mode
\* variant: the guard is a temporary dropped at the end of its statement
lock_dropped == locks

\* the locks held once `self.hotkeys.lock()` is bound to `lock`
lock_hotkeys == locks \cup {"hotkeys"}

\* variant: the mode is stored before the old handles are collected
unregister_arg_late == handles(target)

\* the handles of the mode that is current on entry
unregister_arg == handles(mode)

\* variant: the default mode is stored under its literal name
stored_mode_literal == IF target = NONE THEN "default" ELSE target

\* mode.clone()
stored_mode == target

\* variant: the handles of the mode that was left are registered again
register_arg_entry == handles(act.entry_mode)

\* the handles of the mode asked for
register_arg == handles(target)

\* let lock = &self.hotkeys.lock(): the guard lives to the end of the function
ActLock ==
    /\ pc = "act_lock"
    /\ "hotkeys" \notin locks
    /\ locks' = lock_hotkeys
    /\ act' = [entry_mode |-> mode, entry_registered |-> registered, calls |-> <<>>]
    /\ result' = "none"
    /\ pc' = "act_unreg"
    /\ UNCHANGED <<doc, whkdrc, bindings, app_bindings, owned, mode, binding_map, hotkeys, registered, channel,
                   delivered, sent, event, hotkey, target, caller, session_stdin, seen>>

\* variant: the handles of the old mode are taken out of the table
hotkeys_drained ==
    [d \in {k \in DOMAIN hotkeys : k.mode # mode} |-> hotkeys[d]]

\* lock.get(h).unwrap() ... .cloned(): the table keeps every handle
hotkeys_kept == hotkeys

\* unregister_all(handles of *self.mode.lock()); the mode guard is a temporary
\* of this statement
ActUnregister ==
    /\ pc = "act_unreg"
    /\ "mode" \notin locks
    /\ registered' = unregister_all(registered, unregister_arg)
    /\ hotkeys' = hotkeys_kept
    /\ act' = [act EXCEPT !.calls = Append(@, <<"unregister_all", unregister_arg>>)]
    /\ pc' = "act_set"
    /\ UNCHANGED <<doc, whkdrc, bindings, app_bindings, owned, mode, binding_map, channel, delivered, sent,
                   event, hotkey, target, caller, locks, result, session_stdin, seen>>

\* *self.mode.lock() = mode.clone()
ActSetMode ==
    /\ pc = "act_set"
    /\ "mode" \notin locks
    /\ mode' = stored_mode
    /\ act' = [act EXCEPT !.calls = Append(@, <<"set_mode", stored_mode>>)]
    /\ pc' = "act_reg"
    /\ UNCHANGED <<doc, whkdrc, bindings, app_bindings, owned, binding_map, hotkeys, registered, channel,
                   delivered, sent, event, hotkey, target, caller, locks, result,
                   session_stdin, seen>>

\* register_all(handles of mode); its Result is discarded
ActRegister ==
    /\ pc = "act_reg"
    /\ registered' = register_all(registered, owned, register_arg)
    /\ act' = [act EXCEPT !.calls = Append(@, <<"register_all", register_arg>>)]
    /\ pc' = "act_end"
    /\ UNCHANGED <<doc, whkdrc, bindings, app_bindings, owned, mode, binding_map, hotkeys, channel, delivered, sent,
                   event, hotkey, target, caller, locks, result, session_stdin, seen>>

\* Ok(()): the hotkeys guard is dropped on return
ActReturn ==
    /\ pc = "act_end"
    /\ locks' = locks \ {"hotkeys"}
    /\ result' = "Ok"
    /\ pc' = "act_ret"
    /\ UNCHANGED <<doc, whkdrc, bindings, app_bindings, owned, mode, binding_map, hotkeys, registered, channel,
                   delivered, sent, event, hotkey, target, caller, session_stdin, seen, act>>

\* the caller's `?` (startup) or `.unwrap()` (dispatch) on the result
AfterActivate ==
    /\ pc = "act_ret"
    /\ pc' = IF result = "Ok" THEN "idle" ELSE "panicked"
    /\ event' = NoEvent
    /\ hotkey' = NoHotkey
    /\ UNCHANGED <<doc, whkdrc, bindings, app_bindings, owned, mode, binding_map, hotkeys, registered, channel,
                   delivered, sent, target, caller, locks, result, session_stdin, seen, act>>


\* ---------------------------------------------------------- the OS side
\* a registered combo is pressed: its id is sent to the channel
Fire ==
    /\ delivered < MaxEvents
    /\ \E i \in registered :
          /\ channel' = Append(channel, i)
          /\ sent' = Append(sent, i)
    /\ delivered' = delivered + 1
    /\ UNCHANGED <<doc, whkdrc, bindings, app_bindings, owned, pc, mode, binding_map, hotkeys, registered,
                   event, hotkey, target, caller, locks, result, session_stdin,
                   seen, act>>

\* a WM_HOTKEY posted to the window with an id this process never created
FireForeign ==
    /\ delivered < MaxEvents
    /\ pc \notin {"new", "panicked"}
    /\ channel' = Append(channel, ForeignId)
    /\ sent' = Append(sent, ForeignId)
    /\ delivered' = delivered + 1
    /\ UNCHANGED <<doc, whkdrc, bindings, app_bindings, owned, pc, mode, binding_map, hotkeys, registered,
                   event, hotkey, target, caller, locks, result, session_stdin,
                   seen, act>>

\* ------------------------------------------------- main: the event closure
\* variant: the newest event is taken
try_recv_newest == channel[Len(channel)]

\* channel.try_recv(): the oldest event of the queue
try_recv == Head(channel)

\* if let Ok(event) = channel.try_recv()
Recv ==
    /\ pc = "idle"
    /\ channel # <<>>
    /\ event' = try_recv
    /\ channel' = Tail(channel)
    /\ seen' = [n |-> seen.n + 1, mode |-> mode]
    /\ pc' = "lookup"
    /\ UNCHANGED <<doc, whkdrc, bindings, app_bindings, owned, mode, binding_map, hotkeys, registered,
                   delivered, sent, hotkey, target, caller, locks, result,
                   session_stdin, act>>

\* the descriptors hotkeys.iter().find(|(_, v)| v.id() == event.id) may yield:
\* HashMap iteration order is unspecified, so any entry with the id
found(e) == {d \in DOMAIN hotkeys : id(hotkeys[d]) = e}

\* variant: the guard of the lookup lives to the end of the closure
lookup_still_locked == locks \cup {"hotkeys"}

\* the locks held after the lookup block: its guard is dropped at the `}`
\* (or by the unwinding panic)
lookup_unlocked == locks \ {"hotkeys"}

\* the block under mode_manager.hotkeys.lock(); find(..).unwrap() panics on None
Lookup ==
    /\ pc = "lookup"
    /\ "hotkeys" \notin locks
    /\ locks' = lookup_unlocked
    /\ IF found(event) = {}
       THEN /\ pc' = "panicked"
            /\ UNCHANGED hotkey
       ELSE /\ \E d \in found(event) : hotkey' = d
            /\ pc' = "cmd"
    /\ UNCHANGED <<doc, whkdrc, bindings, app_bindings, owned, mode, binding_map, hotkeys, registered, channel,
                   delivered, sent, event, target, caller, result, session_stdin,
                   seen, act>>

\* variant: `else if`: a binding that changes mode writes no command
command_else_if == IF hotkey.internal_action # ABSENT THEN NONE ELSE hotkey.command

\* if let Some(cmd) = &hotkey.command
command_to_write == hotkey.command

\* writeln!(session_stdin, "{cmd}") under SESSION_STDIN.lock()
Command ==
    /\ pc = "cmd"
    /\ "stdin" \notin locks
    /\ session_stdin' =
          IF command_to_write # NONE
          THEN Append(session_stdin,
                      [cmd |-> command_to_write, mode |-> mode, n |-> seen.n])
          ELSE session_stdin
    /\ pc' = "action"
    /\ UNCHANGED <<doc, whkdrc, bindings, app_bindings, owned, mode, binding_map, hotkeys, registered, channel,
                   delivered, sent, event, hotkey, target, caller, locks, result, seen, act>>

\* variant: the outer Option is flattened, so every event activates a mode
mode_action_always == TRUE

\* if let Some(cmd) = &hotkey.internal_action
mode_action_present == hotkey.internal_action # ABSENT

\* the Option<String> handed to activate_mode
mode_action_target == IF hotkey.internal_action = ABSENT THEN NONE
                      ELSE hotkey.internal_action

\* mode_manager.activate_mode(cmd).unwrap(), or the end of the closure
Action ==
    /\ pc = "action"
    /\ IF mode_action_present
       THEN /\ target' = mode_action_target
            /\ caller' = "dispatch"
            /\ pc' = "act_lock"
            /\ UNCHANGED <<event, hotkey>>
       ELSE /\ pc' = "idle"
            /\ event' = NoEvent
            /\ hotkey' = NoHotkey
            /\ UNCHANGED <<target, caller>>
    /\ UNCHANGED <<doc, whkdrc, bindings, app_bindings, owned, mode, binding_map, hotkeys, registered, channel,
                   delivered, sent, locks, result, session_stdin, seen, act>>

Next ==
    \/ New
    \/ ActLock
    \/ ActUnregister
    \/ ActSetMode
    \/ ActRegister
    \/ ActReturn
    \/ AfterActivate
    \/ Fire
    \/ FireForeign
    \/ Recv
    \/ Lookup
    \/ Command
    \/ Action

Spec == Init /\ [][Next]_vars

\* loading, from every source document, and what main makes of the bindings
ParserNext ==
    \/ Load
    \/ New

ParserSpec == LoadInit /\ [][ParserNext]_vars


\* =================================================================== claims
ActPcs == {"act_lock", "act_unreg", "act_set", "act_reg", "act_end", "act_ret"}

\* ids of the handles of the descriptors in ModeTable[m]
mode_ids(m) == {id(handles(m)[i]) : i \in 1..Len(handles(m))}

Last(q) == q[Len(q)]

\* C1: whenever the closure is between events (startup done, no activation
\* running), the ids registered with the OS are exactly the ids of the handles
\* of the descriptors of the current mode.  Stated for the runs in which no
\* other application owns a combo, so that a failure is the program's own.
C1_RegisteredIsCurrentMode ==
    (pc = "idle" /\ owned = {}) => registered = mode_ids(mode)

C3_ActivateAtomic ==
    /\ pc \in {"act_unreg", "act_set", "act_reg", "act_end"} => "hotkeys" \in locks
    /\ pc = "lookup" => /\ "hotkeys" \notin locks
                        /\ Len(act.calls) \in {0, 3}

C3_Witness ==
    /\ pc = "act_reg"
    /\ caller = "dispatch"
    /\ "hotkeys" \in locks
    /\ channel # <<>>

C5_UnresolvedEventDropped ==
    (event # NoEvent /\ found(event) = {}) => pc # "panicked"

\* C6: activating a named mode that has no entry in the mode table returns Ok,
\* registers nothing and leaves no id registered.
C6_UnknownModeEmpty ==
    (pc \in {"act_end", "act_ret"} /\ target # NONE /\ target \notin DOMAIN binding_map) =>
        /\ registered = {}
        /\ act.calls[3] = <<"register_all", <<>> >>
        /\ pc = "act_ret" => result = "Ok"

C6_Witness ==
    /\ pc = "act_ret"
    /\ target = "ghost"
    /\ result = "Ok"
    /\ act.entry_registered # {}

\* C7 as stated: the current mode is None or a key of the mode table.
C7_ModeIsTableKey ==
    mode = NONE \/ mode \in DOMAIN binding_map

\* C7 amended: the current mode is None, a key of the mode table, or a mode
\* named by the mode_action of some descriptor.
C7_ModeIsKeyOrNamed ==
    \/ mode = NONE
    \/ mode \in DOMAIN binding_map
    \/ mode # ABSENT /\ \E d \in DOMAIN hotkeys : d.internal_action = mode

C7_Witness ==
    /\ pc = "idle"
    /\ mode = "ghost"
    /\ mode \notin DOMAIN binding_map

\* C8: two descriptors of the registration table are equal exactly when their
\* mode, modifier set and trigger key are equal.
C8_DescriptorIdentity ==
    \A d1, d2 \in DOMAIN hotkeys :
        (d1 = d2) <=> /\ d1.mode = d2.mode
                      /\ d1.mod_keys = d2.mod_keys
                      /\ d1.vkey = d2.vkey

\* C9: the current mode starts at None; the current mode and the registered
\* set change only in a step of activate; after startup activate runs only for
\* an event whose descriptor has a mode_action, with that action as target.
C9_OnlyActivateChangesMode ==
    /\ [](pc = "new" => mode = NONE /\ registered = {})
    /\ []((pc \in ActPcs /\ caller = "dispatch") =>
             /\ event # NoEvent
             /\ hotkey.internal_action # ABSENT
             /\ target = hotkey.internal_action)
    /\ [][(mode' # mode \/ registered' # registered) =>
             pc \in {"act_unreg", "act_set", "act_reg"}]_vars

C9_Witness ==
    /\ pc = "action"
    /\ hotkey.vkey # NoCode
    /\ hotkey.internal_action = ABSENT
    /\ registered # {}

C11_InOrderOneAtATime ==
    /\ [](event # NoEvent => (seen.n \in 1..Len(sent) /\ event = sent[seen.n]))
    /\ [](channel = SubSeq(sent, seen.n + 1, Len(sent)))
    /\ [][seen'.n # seen.n =>
             /\ pc = "idle"
             /\ event = NoEvent
             /\ locks = {}
             /\ seen'.n = seen.n + 1]_vars

C11_Witness ==
    /\ pc = "cmd"
    /\ seen.n = 2
    /\ Len(sent) = 3
    /\ sent[1] # sent[2]
    /\ sent[2] # sent[3]
    /\ mode # seen.mode \/ session_stdin # <<>>

\* C12: when the OS refuses a combo of the mode being activated, activate
\* still returns Ok and every other combo of that mode is registered.
C12_RefusedComboSkippedOnly ==
    (pc \in {"act_end", "act_ret"} /\ mode_ids(target) \cap owned # {}) =>
        /\ mode_ids(target) \ owned \subseteq registered
        /\ pc = "act_ret" => result = "Ok"

\* C13: once ModeManager::new has run, the mode table and the registration
\* table are the ones it built from the bindings, and no step changes them.
C13_TablesBuiltOnce ==
    /\ [](pc \notin {"new", "panicked"} =>
             /\ binding_map = new_binding_map(bindings, EmptyMap)
             /\ hotkeys = new_hotkeys(bindings, EmptyMap))
    /\ [][pc # "new" => (binding_map' = binding_map /\ hotkeys' = hotkeys)]_vars

C13_Witness ==
    /\ pc = "idle"
    /\ seen.n >= 2
    /\ mode # NONE
    /\ registered # {}
    /\ Cardinality(DOMAIN hotkeys) >= 2

\* a binding whose trigger token names no key
unknown_trigger(b) ==
    Len(b.keys) > 0 /\ key_code_from_string(b.keys[Len(b.keys)]) = NoCode

\* C14: with a binding whose trigger token is unknown the program never gets
\* past ModeManager::new: no table is built, nothing is ever registered and no
\* event is ever sent; and whenever something is registered every binding has
\* been normalized into the registration table.
C14_NormalizeBeforeRegister ==
    /\ (\E i \in 1..Len(bindings) : unknown_trigger(bindings[i])) =>
          /\ pc \in {"new", "panicked"}
          /\ registered = {}
          /\ hotkeys = EmptyMap
          /\ sent = <<>>
    /\ registered # {} =>
          \A i \in 1..Len(bindings) : try_from(bindings[i]) \in DOMAIN hotkeys

C14_Witness ==
    /\ pc = "panicked"
    /\ Len(bindings) >= 2
    /\ ~unknown_trigger(bindings[1])
    /\ unknown_trigger(bindings[2])
    /\ registered = {}

\* the bindings of the process-scoped blocks of the document
process_bindings ==
    UNION { {app_bindings[k][2][i] : i \in 1..Len(app_bindings[k][2])} :
            k \in 1..Len(app_bindings) }

prefix_mode(l) == IF l.prefix \in {ABSENT, "default"} THEN NONE ELSE l.prefix
clause_action(l) == IF l.clause = "default" THEN NONE ELSE l.clause
loaded == pc # "load" /\ doc.shell # ABSENT

\* C16: for every direct binding of a document the parser sets mode to None
\* when the `name >` prefix is absent or is `default` and to the name
\* otherwise, and sets the mode action to absent without a `;` clause, to
\* Some(None) for `; default` and to the name for any other identifier, with
\* and without a `: command` part.
C16_ModeAndActionParsed ==
    loaded =>
        /\ whkdrc.ok
        /\ Len(whkdrc.bindings) = Len(doc.lines)
        /\ \A i \in 1..Len(doc.lines) :
            /\ whkdrc.bindings[i].mode = prefix_mode(doc.lines[i])
            /\ whkdrc.bindings[i].internal_action = clause_action(doc.lines[i])
            /\ (whkdrc.bindings[i].command = NONE) = (doc.lines[i].command = ABSENT)

C16_Witness ==
    /\ loaded
    /\ Len(doc.lines) = 2
    /\ doc.lines[1].prefix = "default" /\ doc.lines[1].clause = "ghost"
    /\ doc.lines[1].command = ABSENT
    /\ doc.lines[2].prefix = "window" /\ doc.lines[2].clause = "default"
    /\ doc.lines[2].command # ABSENT
    /\ whkdrc.bindings[1].mode = NONE /\ whkdrc.bindings[2].mode = "window"
    /\ whkdrc.bindings[1].internal_action = "ghost"
    /\ whkdrc.bindings[2].internal_action = NONE

\* C17 (as the specification states it): a document without a `.shell`
\* directive that is otherwise valid loads, with one of the shells as default.
C17_ShellOptional ==
    (pc # "load" /\ doc.shell = ABSENT) =>
        /\ whkdrc.ok
        /\ whkdrc.shell \in {"pwsh", "powershell", "cmd"}

\* C18: each `process-name : command` pair of a process-scoped block yields
\* exactly one binding, in document order, with the block's keys, mode None,
\* no mode action, the pair's process name (words joined by single blanks)
\* and the pair's command.
C18_BlockPairsCollected ==
    loaded =>
        /\ whkdrc.ok
        /\ Len(whkdrc.app_bindings) = Len(doc.blocks)
        /\ \A k \in 1..Len(doc.blocks) :
            LET b == doc.blocks[k]
                got == whkdrc.app_bindings[k]
            IN /\ got[1] = b.keys
               /\ Len(got[2]) = Len(b.pairs)
               /\ \A i \in 1..Len(b.pairs) :
                    got[2][i] = [mode |-> NONE, keys |-> b.keys,
                                 command |-> b.pairs[i].command,
                                 internal_action |-> ABSENT,
                                 process_name |-> b.pairs[i].name]

C18_Witness ==
    /\ loaded
    /\ Len(doc.blocks) = 2
    /\ Len(whkdrc.app_bindings[2][2]) = 2
    /\ whkdrc.app_bindings[2][2][1].process_name = "Google Chrome"
    /\ whkdrc.app_bindings[2][2][2].process_name = "Firefox"
    /\ whkdrc.app_bindings[2][2][2].command = "a"


\* ---------------------------------------------------- resolution and mode
\* C19 (as the specification states it): whenever the dispatcher forwards a
\* command or performs a mode change for an event, the descriptor it resolved
\* the event to belongs to the mode that is current at that moment, also when
\* two modes bind the same combo and when the event was queued before a mode
\* switch.
C19_ResolvedInCurrentMode ==
    (/\ pc = "action"
     /\ hotkey # NoHotkey
     /\ (hotkey.command # NONE \/ hotkey.internal_action # ABSENT))
        => hotkey.mode = mode


\* ------------------------------------------------------------------ locks
\* the positions of one dispatch, in the order the code runs through them
DispatchOrder ==
    <<"lookup", "cmd", "action", "act_lock", "act_unreg", "act_set", "act_reg",
      "act_end", "act_ret">>

position(p) == CHOOSE k \in 1..Len(DispatchOrder) : DispatchOrder[k] = p

dispatching == \E k \in 1..Len(DispatchOrder) : DispatchOrder[k] = pc

\* the step of the main thread at its current position
DispatchStep ==
    \/ Lookup \/ Command \/ Action
    \/ ActLock \/ ActUnregister \/ ActSetMode \/ ActRegister \/ ActReturn
    \/ AfterActivate

\* C20: the dispatcher and activate never deadlock on the lock of the
\* registration table, of the current mode or of the shell's stdin: the table
\* lock is free when the lookup and when activate ask for it, it is released
\* before the stdin lock is taken and before activate is called, activate asks
\* for the mode lock only while it is free, the main thread is never blocked,
\* and a dispatch only moves forward, so every dispatch of an event ends.
C20_NoDeadlock ==
    /\ [](pc \in {"lookup", "cmd", "action", "act_lock"} => locks = {})
    /\ [](pc \in {"act_unreg", "act_set", "act_reg", "act_end"} => locks = {"hotkeys"})
    /\ [](dispatching => ENABLED DispatchStep)
    /\ [][(dispatching /\ pc' # pc) =>
             \/ pc' \in {"idle", "panicked"}
             \/ pc' \in {DispatchOrder[k] : k \in position(pc) + 1..Len(DispatchOrder)}]_vars

C20_Witness ==
    /\ pc = "act_unreg"
    /\ caller = "dispatch"
    /\ locks = {"hotkeys"}
    /\ session_stdin # <<>>
    /\ Last(session_stdin).n = seen.n


\* -------------------------------------------------------- the empty mode
\* the current mode has no descriptors and no delivered event is pending:
\* between events, or in activate once the mode is stored
InEmptyMode ==
    /\ pc \in {"act_reg", "act_end", "act_ret", "idle"}
    /\ handles(mode) = <<>>
    /\ channel = <<>>

\* what stays true from then on: nothing is registered, and whatever is
\* delivered or being handled is not an event of a handle of this process
EmptyModeKept ==
    /\ pc \in {"act_reg", "act_end", "act_ret", "idle", "lookup", "panicked"}
    /\ handles(mode) = <<>>
    /\ registered = {}
    /\ \A k \in 1..Len(channel) : found(channel[k]) = {}
    /\ pc = "lookup" => found(event) = {}

\* C21: once the current mode is a mode without descriptors and no delivered
\* event is pending, no handle is registered, no event of a handle can fire
\* any more, and the current mode never changes again.
C21_EmptyModeAbsorbing ==
    /\ [](InEmptyMode => EmptyModeKept)
    /\ [][EmptyModeKept =>
             /\ EmptyModeKept'
             /\ mode' = mode
             /\ \A k \in 1..Len(sent') : k > Len(sent) => found(sent'[k]) = {}]_vars

C21_Witness ==
    /\ pc = "idle"
    /\ mode = "ghost"
    /\ channel = <<>>
    /\ registered = {}
    /\ act.entry_registered # {}
    /\ caller = "dispatch"
    /\ delivered < MaxEvents


\* --------------------------------------------------------- keys of a binding
\* every binding of the loaded document, direct or process-scoped
parsed_bindings ==
    {whkdrc.bindings[i] : i \in 1..Len(whkdrc.bindings)}
    \cup UNION { {whkdrc.app_bindings[k][2][i] : i \in 1..Len(whkdrc.app_bindings[k][2])} :
                 k \in 1..Len(whkdrc.app_bindings) }

\* C22 (as the specification states it): every binding of a document the
\* parser accepts has at least one key, so that its split into a trigger and
\* modifiers is defined.
C22_KeysNonEmpty ==
    (pc # "load" /\ whkdrc.ok) =>
        \A b \in parsed_bindings : Len(b.keys) > 0

====
